---- MODULE Spec2Model ----
(***************************************************************************)
(* A model of the flashcard PDF generator: the FlashCardGenerator builder  *)
(* and its paginated front/back rendering (src/flashcard_generator.py),    *)
(* the markup translator _parse_markdown, and the content pipeline that    *)
(* feeds it (src/console_flashcard_maker.py).                              *)
(*                                                                         *)
(* Lengths are whole millimetres (cm == 10, A4 == 210 x 297); the source   *)
(* uses points, a common factor that cancels in every quotient taken.      *)
(* Texts are sequences of one-character strings, so that strip() and the   *)
(* regular-expression substitutions are computed, not assumed.             *)
(***************************************************************************)
EXTENDS Integers, Sequences, FiniteSets, TLC

VARIABLES
    filename,         \* self.filename
    page_size,        \* self.page_size  <<width, height>>
    margins,          \* self.margins    <<top, right, bottom, left>>
    cards_per_row,    \* self.cards_per_row
    card_height,      \* self.card_height
    entries,          \* self.entries, a sequence of entry records
    pc,               \* where generate() stands: "idle", "loop", "saved"
    c,                \* the canvas local to generate(), NoCanvas outside it
    cards_per_page,   \* local of generate()
    total_cards,      \* local of generate()
    cards_processed,  \* local of generate()
    args,             \* arguments of the generate_pdf call in progress
    last,             \* the last API call and its outcome
    files,            \* file system: the names of the documents written
    mpc,              \* where main() stands
    attempt,          \* loop variable of generate_flashcards_with_gemini
    calls,            \* how many times geminiResponse was called
    attempt_outcome,  \* how the latest attempt ended
    response,         \* what the attempt that returned got from the API
    flashcards,       \* what generate_flashcards_with_gemini returned
    md_text,          \* input of _parse_markdown under study
    md_out            \* its result

genVars == <<filename, page_size, margins, cards_per_row, card_height, entries>>
runVars == <<pc, c, cards_per_page, total_cards, cards_processed>>
pipeVars == <<mpc, attempt, calls, attempt_outcome, response, flashcards>>
mdVars == <<md_text, md_out>>
vars == <<filename, page_size, margins, cards_per_row, card_height, entries,
          pc, c, cards_per_page, total_cards, cards_processed, args, last,
          files, mpc, attempt, calls, attempt_outcome, response, flashcards,
          md_text, md_out>>

----------------------------------------------------------------------------
(* Bounds of the model *)

MaxEntries == 3
MaxTextLen == 4
MaxCards == 2
MaxListLen == 2

(* Program constants *)

cm == 10
A4 == <<210, 297>>
DefaultMargins == <<1 * cm, 1 * cm, 1 * cm, 1 * cm>>
DefaultFilename == "flashcards.pdf"

----------------------------------------------------------------------------
(* Small helpers *)

Min(a, b) == IF a <= b THEN a ELSE b

SetMin(S) == CHOOSE x \in S : \A y \in S : x <= y

SeqsUpTo(S, n) == UNION {[1..k -> S] : k \in 0..n}

NL == "\n"

----------------------------------------------------------------------------
(* _parse_markdown: three re.sub passes, each replacing the leftmost        *)
(* non-overlapping matches of  D(.*?)D  by  <t>\1</t>.  '.' does not match  *)
(* a newline; the lazy group takes the nearest closing delimiter.           *)

StartsWith(t, i, d) ==
    /\ i + Len(d) - 1 <= Len(t)
    /\ \A j \in 1..Len(d) : t[i + j - 1] = d[j]

Closers(t, i, d) ==
    {j \in (i + Len(d))..Len(t) :
        /\ StartsWith(t, j, d)
        /\ \A m \in (i + Len(d))..(j - 1) : t[m] # NL}

RECURSIVE ReSubFrom(_, _, _, _, _)
ReSubFrom(t, i, d, open, close) ==
    IF i > Len(t) THEN <<>>
    ELSE IF StartsWith(t, i, d) /\ Closers(t, i, d) # {}
    THEN LET j == SetMin(Closers(t, i, d))
         IN  <<open>> \o SubSeq(t, i + Len(d), j - 1) \o <<close>>
                \o ReSubFrom(t, j + Len(d), d, open, close)
    ELSE <<t[i]>> \o ReSubFrom(t, i + 1, d, open, close)

ReSub(t, d, open, close) == ReSubFrom(t, 1, d, open, close)

ParseMarkdown(text) ==
    LET t1 == ReSub(text, <<"*", "*">>, "<b>", "</b>")
        t2 == ReSub(t1, <<"*">>, "<i>", "</i>")
        t3 == ReSub(t2, <<"_", "_">>, "<u>", "</u>")
    IN  t3

----------------------------------------------------------------------------
(* Layout geometry *)

\* Python's int(a / b) for b > 0: the quotient truncated toward zero.
PyInt_Floor(a, b) == a \div b

PyInt(a, b) == IF a >= 0 THEN a \div b ELSE -((-a) \div b)

\* card_width is kept as the exact quotient <<numerator, denominator>>.
CalculateCardDimensions(ps, mg, cpr, ch) ==
    LET usable_width == ps[1] - mg[2] - mg[4]
        usable_height == ps[2] - mg[1] - mg[3]
        cards_per_column == PyInt(usable_height, ch)
    IN  [card_width |-> <<usable_width, cpr>>,
         max_cards_per_page |-> cpr * cards_per_column]

CardsOnCurrentPage_NoCap(cpp, remaining) == remaining

CardsOnCurrentPage(cpp, remaining) == Min(cpp, remaining)

EntryIndex_NoOffset(processed, i) == i

EntryIndex(processed, i) == processed + i

FrontCell(i, cpr) == [row |-> i \div cpr, col |-> i % cpr]

BackCell_Unmirrored(i, cpr) == [row |-> i \div cpr, col |-> i % cpr]

BackCell(i, cpr) == [row |-> i \div cpr, col |-> cpr - 1 - (i % cpr)]

----------------------------------------------------------------------------
(* The canvas: the pages closed so far and the content of the open page.   *)
(* showPage closes the open page, empty or not; save closes it only when   *)
(* something was drawn on it, and writes the file.                         *)

NoCanvas == [open |-> FALSE]

NewCanvas(fname) == [open |-> TRUE, filename |-> fname, pages |-> <<>>, cur |-> <<>>]

ShowPage(cv) == [cv EXCEPT !.pages = Append(cv.pages, cv.cur), !.cur = <<>>]

DrawAll(cv, draws) == [cv EXCEPT !.cur = cv.cur \o draws]

SaveCanvas(cv) == IF Len(cv.cur) > 0 THEN ShowPage(cv) ELSE cv

\* One card face: which entry, where, and the text handed to Paragraph.
FrontDraw(ents, processed, i, cpr) ==
    LET k == EntryIndex(processed, i)
        entry == ents[k + 1]
        cell == FrontCell(i, cpr)
    IN  [face |-> "front", k |-> k, row |-> cell.row, col |-> cell.col,
         text |-> ParseMarkdown(entry.original),
         extra |-> IF entry.extra # <<>> THEN ParseMarkdown(entry.extra) ELSE <<>>,
         index |-> entry.index]

BackDraw(ents, processed, i, cpr) ==
    LET k == EntryIndex(processed, i)
        entry == ents[k + 1]
        cell == BackCell(i, cpr)
    IN  [face |-> "back", k |-> k, row |-> cell.row, col |-> cell.col,
         text |-> ParseMarkdown(entry.translation),
         extra |-> <<>>,
         index |-> entry.index]

FrontPass(ents, processed, n, cpr) ==
    IF n <= 0 THEN <<>> ELSE [j \in 1..n |-> FrontDraw(ents, processed, j - 1, cpr)]

BackPass(ents, processed, n, cpr) ==
    IF n <= 0 THEN <<>> ELSE [j \in 1..n |-> BackDraw(ents, processed, j - 1, cpr)]

----------------------------------------------------------------------------
(* Inputs the operations are called with *)

Filenames == {DefaultFilename, "out.pdf"}

Counts == {-1, 0, 1, 2}

Heights == {-5 * cm, 0, 5 * cm, 10 * cm}

PageSizes == {A4, <<100, 80>>}

MarginChoices == {DefaultMargins, <<7 * cm, 1 * cm, 7 * cm, 1 * cm>>}

\* Flashcard tuples (front, back, extra, index).
CardA == << <<"a">>, <<"*", "b", "*">>, <<>>, <<"1">> >>

CardB == << <<"c">>, <<"d">>, <<"_", "_", "e", "_", "_">>, <<>> >>

Cards == {CardA, CardB}

FlashcardLists == SeqsUpTo(Cards, MaxListLen)

\* The pagination loop of a configuration with cards_per_page <= 0 never
\* ends; the model follows it for this many pages.
PageCap == 2 * MaxEntries + 2

----------------------------------------------------------------------------
(* The generator *)

NoArgs == [active |-> FALSE]

Call(op, arg, outcome) == [op |-> op, arg |-> arg, outcome |-> outcome]

NewEntry(original, translation, extra, index) ==
    [original |-> original, translation |-> translation,
     extra |-> extra, index |-> index]

RECURSIVE AddAll(_, _)
AddAll(ents, fs) ==
    IF fs = <<>> THEN ents
    ELSE AddAll(Append(ents, NewEntry(fs[1][1], fs[1][2], fs[1][3], fs[1][4])),
                Tail(fs))

InitGenerator ==
    /\ filename = DefaultFilename
    /\ page_size = A4
    /\ margins = DefaultMargins
    /\ cards_per_row = 2
    /\ card_height = 5 * cm
    /\ entries = <<>>

InitIdle ==
    /\ pc = "idle"
    /\ c = NoCanvas
    /\ cards_per_page = 0
    /\ total_cards = 0
    /\ cards_processed = 0
    /\ args = NoArgs
    /\ last = Call("__init__", 0, "ok")
    /\ files = {}

NoResponse == [kind |-> "none"]

NotParsed == [done |-> FALSE]

InitPipelineOff ==
    /\ mpc = "none"
    /\ attempt = 0
    /\ calls = 0
    /\ attempt_outcome = "none"
    /\ response = NoResponse
    /\ flashcards = <<>>

InitMarkdownOff ==
    /\ md_text = <<>>
    /\ md_out = NotParsed

Init ==
    /\ InitGenerator
    /\ InitIdle
    /\ InitPipelineOff
    /\ InitMarkdownOff

SetFilename(name) ==
    /\ pc = "idle"
    /\ filename' = name
    /\ last' = Call("set_filename", 0, "ok")
    /\ UNCHANGED <<page_size, margins, cards_per_row, card_height, entries,
                   runVars, args, files, pipeVars, mdVars>>

SetCardsPerRow_NoCheck(count) ==
    /\ pc = "idle"
    /\ cards_per_row' = count
    /\ last' = Call("set_cards_per_row", count, "ok")
    /\ UNCHANGED <<filename, page_size, margins, card_height, entries,
                   runVars, args, files, pipeVars, mdVars>>

SetCardsPerRow(count) ==
    /\ pc = "idle"
    /\ IF count <= 0
       THEN /\ last' = Call("set_cards_per_row", count, "ValueError")
            /\ UNCHANGED cards_per_row
       ELSE /\ cards_per_row' = count
            /\ last' = Call("set_cards_per_row", count, "ok")
    /\ UNCHANGED <<filename, page_size, margins, card_height, entries,
                   runVars, args, files, pipeVars, mdVars>>

SetPageSize(size) ==
    /\ pc = "idle"
    /\ page_size' = size
    /\ last' = Call("set_page_size", 0, "ok")
    /\ UNCHANGED <<filename, margins, cards_per_row, card_height, entries,
                   runVars, args, files, pipeVars, mdVars>>

SetMargins(m) ==
    /\ pc = "idle"
    /\ margins' = m
    /\ last' = Call("set_margins", 0, "ok")
    /\ UNCHANGED <<filename, page_size, cards_per_row, card_height, entries,
                   runVars, args, files, pipeVars, mdVars>>

SetCardHeight(height) ==
    /\ pc = "idle"
    /\ IF height <= 0
       THEN /\ last' = Call("set_card_height", height, "ValueError")
            /\ UNCHANGED card_height
       ELSE /\ card_height' = height
            /\ last' = Call("set_card_height", height, "ok")
    /\ UNCHANGED <<filename, page_size, margins, cards_per_row, entries,
                   runVars, args, files, pipeVars, mdVars>>

AddEntry(card) ==
    /\ pc = "idle"
    /\ Len(entries) < MaxEntries
    /\ entries' = Append(entries, NewEntry(card[1], card[2], card[3], card[4]))
    /\ last' = Call("add_entry", 0, "ok")
    /\ UNCHANGED <<filename, page_size, margins, cards_per_row, card_height,
                   runVars, args, files, pipeVars, mdVars>>

\* generate() up to its first loop test, on the generator fields given.
BeginGenerate_NoEmptyCheck(ents, fname, ps, mg, cpr, ch, op) ==
    LET dims == CalculateCardDimensions(ps, mg, cpr, ch)
    IN  /\ cards_per_page' = dims.max_cards_per_page
        /\ c' = NewCanvas(fname)
        /\ total_cards' = Len(ents)
        /\ cards_processed' = 0
        /\ pc' = "loop"
        /\ last' = Call(op, 0, "running")

BeginGenerate(ents, fname, ps, mg, cpr, ch, op) ==
    IF ents = <<>>
    THEN /\ last' = Call(op, 0, "warning")
         /\ UNCHANGED runVars
    ELSE LET dims == CalculateCardDimensions(ps, mg, cpr, ch)
         IN  /\ cards_per_page' = dims.max_cards_per_page
             /\ c' = NewCanvas(fname)
             /\ total_cards' = Len(ents)
             /\ cards_processed' = 0
             /\ pc' = "loop"
             /\ last' = Call(op, 0, "running")

Generate ==
    /\ pc = "idle"
    /\ BeginGenerate(entries, filename, page_size, margins, cards_per_row,
                     card_height, "generate")
    /\ UNCHANGED <<genVars, args, files, pipeVars, mdVars>>

NeedsPageBreak(processed, total) == processed < total

\* One pass of the while loop: front page, page break, back page, and the
\* page break that separates this group from the next.
GroupIteration ==
    /\ pc = "loop"
    /\ cards_processed < total_cards
    /\ Len(c.pages) < PageCap
    /\ LET remaining_cards == total_cards - cards_processed
           n == CardsOnCurrentPage(cards_per_page, remaining_cards)
           c1 == DrawAll(c, FrontPass(entries, cards_processed, n, cards_per_row))
           c2 == ShowPage(c1)
           c3 == DrawAll(c2, BackPass(entries, cards_processed, n, cards_per_row))
       IN  /\ cards_processed' = cards_processed + n
           /\ c' = IF NeedsPageBreak(cards_processed + n, total_cards)
                   THEN ShowPage(c3) ELSE c3
    /\ UNCHANGED <<genVars, pc, cards_per_page, total_cards, args, last, files,
                   pipeVars, mdVars>>

\* c.save() once the loop has ended.
Save ==
    /\ pc = "loop"
    /\ ~(cards_processed < total_cards)
    /\ c' = SaveCanvas(c)
    /\ files' = files \cup {c.filename}
    /\ pc' = "saved"
    /\ UNCHANGED <<genVars, cards_per_page, total_cards, cards_processed, args,
                   last, pipeVars, mdVars>>

\* The two closing prints, and the return to the caller.
Return ==
    /\ pc = "saved"
    /\ pc' = "idle"
    /\ c' = NoCanvas
    /\ cards_per_page' = 0
    /\ total_cards' = 0
    /\ cards_processed' = 0
    /\ args' = NoArgs
    /\ last' = [last EXCEPT !.outcome = "ok"]
    /\ UNCHANGED <<genVars, files, pipeVars, mdVars>>

GeneratePdfCall_KeepEntries(fs, output_path) ==
    /\ pc = "idle"
    /\ Len(entries) + Len(fs) <= MaxEntries
    /\ entries' = AddAll(entries, fs)
    /\ filename' = output_path
    /\ args' = IF entries' = <<>> THEN NoArgs
               ELSE [active |-> TRUE, flashcards |-> fs, output_path |-> output_path]
    /\ BeginGenerate(entries', filename', page_size, margins, cards_per_row,
                     card_height, "generate_pdf")
    /\ UNCHANGED <<page_size, margins, cards_per_row, card_height, files, mdVars>>

\* generate_pdf up to the first loop test of the generate() it calls.
GeneratePdfCall(fs, output_path) ==
    /\ pc = "idle"
    /\ entries' = AddAll(<<>>, fs)
    /\ filename' = output_path
    /\ args' = IF fs = <<>> THEN NoArgs
               ELSE [active |-> TRUE, flashcards |-> fs, output_path |-> output_path]
    /\ BeginGenerate(entries', filename', page_size, margins, cards_per_row,
                     card_height, "generate_pdf")
    /\ UNCHANGED <<page_size, margins, cards_per_row, card_height, files, mdVars>>

GeneratePdf(fs, output_path) ==
    /\ GeneratePdfCall(fs, output_path)
    /\ UNCHANGED pipeVars

Next ==
    \/ \E name \in Filenames : SetFilename(name)
    \/ \E count \in Counts : SetCardsPerRow(count)
    \/ \E size \in PageSizes : SetPageSize(size)
    \/ \E m \in MarginChoices : SetMargins(m)
    \/ \E height \in Heights : SetCardHeight(height)
    \/ \E card \in Cards : AddEntry(card)
    \/ Generate
    \/ GroupIteration
    \/ Save
    \/ Return
    \/ pc = "idle" /\ \E fs \in FlashcardLists, p \in Filenames : GeneratePdf(fs, p)

Spec == Init /\ [][Next]_vars

----------------------------------------------------------------------------
(* Properties of the layout engine, checked under Spec *)

CeilDiv(n, p) == (n + p - 1) \div p

UsableHeight == page_size[2] - margins[1] - margins[3]

\* Every page the canvas holds, the open one included when it has content.
AllPages == IF c.open
            THEN c.pages \o (IF c.cur # <<>> THEN <<c.cur>> ELSE <<>>)
            ELSE <<>>

\* Where on the pages entry k's given face is drawn: <<page, position>>.
Places(k, face) ==
    {pp \in {<<p, j>> : p \in 1..Len(AllPages), j \in 1..MaxEntries} :
        /\ pp[2] <= Len(AllPages[pp[1]])
        /\ AllPages[pp[1]][pp[2]].k = k
        /\ AllPages[pp[1]][pp[2]].face = face}

\* C1: a completed generate() run with N entries and cards_per_page P > 0
\* has produced exactly 2 * ceil(N / P) pages: for each of the ceil(N / P)
\* groups one non-empty front page followed by one non-empty back page, the
\* last back page being closed by save.
C1_PageCount ==
    (pc = "saved" /\ cards_per_page > 0) =>
        LET groups == CeilDiv(total_cards, cards_per_page)
        IN  /\ Len(c.pages) = 2 * groups
            /\ c.cur = <<>>
            /\ \A g \in 1..groups :
                 /\ c.pages[2 * g - 1] # <<>>
                 /\ \A j \in 1..Len(c.pages[2 * g - 1]) :
                        c.pages[2 * g - 1][j].face = "front"
                 /\ c.pages[2 * g] # <<>>
                 /\ \A j \in 1..Len(c.pages[2 * g]) :
                        c.pages[2 * g][j].face = "back"

C1_Witness ==
    /\ pc = "saved"
    /\ total_cards = 3
    /\ cards_per_page = 2
    /\ Len(c.pages) = 4

\* C2: with cards_per_page = 0 and at least one entry, generate() rejects
\* the configuration with an error and returns; it is never inside the
\* pagination loop.
C2_ZeroCardsPerPageRejected ==
    ( /\ CalculateCardDimensions(page_size, margins, cards_per_row,
                                 card_height).max_cards_per_page = 0
      /\ entries # <<>>
      /\ last.op \in {"generate", "generate_pdf"} )
    => (pc = "idle" /\ last.outcome = "ValueError")

\* C3: mirroring law. On every front page and the back page that follows
\* it, the cell at within-group index i is at row i div cards_per_row,
\* column i mod cards_per_row on the front, and at the same row, column
\* cards_per_row - 1 - (i mod cards_per_row) on the back, for the same entry.
C3_Mirroring ==
    (pc # "idle" /\ cards_per_page > 0) =>
        \A g \in 1..(Len(AllPages) \div 2) :
            LET f == AllPages[2 * g - 1]
                b == AllPages[2 * g]
            IN  /\ Len(f) = Len(b)
                /\ Len(f) <= cards_per_page
                /\ \A j \in 1..Len(f) :
                     /\ f[j].row = (j - 1) \div cards_per_row
                     /\ f[j].col = (j - 1) % cards_per_row
                     /\ b[j].k = f[j].k
                     /\ b[j].row = f[j].row
                     /\ b[j].col = cards_per_row - 1 - f[j].col

C3_Witness ==
    /\ pc = "saved"
    /\ cards_per_row = 2
    /\ \E j \in 1..Len(c.pages[2]) :
          /\ c.pages[2][j].k = 2
          /\ c.pages[2][j].row = 1
          /\ c.pages[2][j].col = 1
          /\ c.pages[1][j].col = 0

\* C4: order preservation. In a completed run with cards_per_page P > 0,
\* entry k's front is drawn exactly once, on the front page of group
\* k div P at within-group index k mod P, its back exactly once at the same
\* index of the page right after; row and column come from k mod P.
C4_OrderPreserved ==
    (pc = "saved" /\ cards_per_page > 0) =>
        \A k \in 0..(total_cards - 1) :
            LET P == cards_per_page
                i == k % P
                fp == 2 * (k \div P) + 1
            IN  /\ Places(k, "front") = {<<fp, i + 1>>}
                /\ Places(k, "back") = {<<fp + 1, i + 1>>}
                /\ c.pages[fp][i + 1].row = i \div cards_per_row
                /\ c.pages[fp][i + 1].col = i % cards_per_row
                /\ c.pages[fp + 1][i + 1].row = i \div cards_per_row
                /\ c.pages[fp + 1][i + 1].col = cards_per_row - 1 - (i % cards_per_row)
                /\ c.pages[fp][i + 1].text = ParseMarkdown(entries[k + 1].original)
                /\ c.pages[fp + 1][i + 1].text = ParseMarkdown(entries[k + 1].translation)

\* The last group (entry 2 alone) is smaller than cards_per_page = 2.
C4_Witness ==
    /\ pc = "saved"
    /\ total_cards = 3
    /\ cards_per_page = 2
    /\ Places(2, "front") = {<<3, 1>>}
    /\ Places(2, "back") = {<<4, 1>>}

\* C5: set_cards_per_row(count <= 0) and set_card_height(height <= 0) raise
\* at the call and leave the stored value as it was; cards_per_row and
\* card_height are positive in every state.
C5_SettersFailFast ==
    /\ [](cards_per_row > 0 /\ card_height > 0)
    /\ [][ /\ (last'.op = "set_cards_per_row" /\ last'.arg <= 0)
              => (last'.outcome = "ValueError" /\ cards_per_row' = cards_per_row)
           /\ (last'.op = "set_card_height" /\ last'.arg <= 0)
              => (last'.outcome = "ValueError" /\ card_height' = card_height) ]_vars

C5_Witness ==
    /\ last = Call("set_cards_per_row", 0, "ValueError")
    /\ cards_per_row = 1

\* C6: generate() on an empty entry list only warns: no canvas is opened,
\* no page is emitted, nothing is saved, nothing is raised, whatever the
\* layout configuration is.
C6_EmptyDeckNoOutput ==
    [][ ( /\ pc = "idle"
          /\ last'.op \in {"generate", "generate_pdf"}
          /\ entries' = <<>> )
        => ( /\ last'.outcome = "warning"
             /\ pc' = "idle"
             /\ c' = NoCanvas
             /\ files' = files ) ]_vars

C6_Witness ==
    /\ last = Call("generate", 0, "warning")
    /\ entries = <<>>
    /\ UsableHeight < 0
    /\ files # {}

\* C7: while generate_pdf(flashcards, output_path) renders, the entry list
\* is exactly the supplied flashcards in the supplied order, the filename
\* is output_path, and every face drawn is a face of a supplied flashcard.
C7_GeneratePdfFresh ==
    args.active =>
        /\ pc # "idle"
        /\ filename = args.output_path
        /\ c.filename = args.output_path
        /\ Len(entries) = Len(args.flashcards)
        /\ \A j \in 1..Len(entries) :
             /\ entries[j].original = args.flashcards[j][1]
             /\ entries[j].translation = args.flashcards[j][2]
             /\ entries[j].extra = args.flashcards[j][3]
             /\ entries[j].index = args.flashcards[j][4]
        /\ \A p \in 1..Len(AllPages) : \A j \in 1..Len(AllPages[p]) :
             LET d == AllPages[p][j]
             IN  /\ d.k < Len(args.flashcards)
                 /\ d.text = ParseMarkdown(
                        args.flashcards[d.k + 1][IF d.face = "front" THEN 1 ELSE 2])

\* An earlier document went to another file, and the list differs from it.
C7_Witness ==
    /\ args.active
    /\ pc = "saved"
    /\ args.flashcards = <<CardB, CardA>>
    /\ args.output_path = "out.pdf"
    /\ files = {DefaultFilename, "out.pdf"}

\* C8 as stated: cards_per_page is cards_per_row times the floor of
\* usable height over card_height, also for a negative usable height.
C8_FloorFormula ==
    /\ CalculateCardDimensions(page_size, margins, cards_per_row,
                               card_height).max_cards_per_page
          = cards_per_row * (UsableHeight \div card_height)
    /\ pc # "idle" => cards_per_page = cards_per_row * (UsableHeight \div card_height)

\* C8 amended: cards_per_page is cards_per_row times the quotient truncated
\* toward zero: the floor for a usable height >= 0, the ceiling below 0.
C8_TruncFormula ==
    LET cpp == CalculateCardDimensions(page_size, margins, cards_per_row,
                                       card_height).max_cards_per_page
        B == 2 * A4[2]
    IN  /\ \E r \in (-B)..B :
             /\ cpp = cards_per_row * r
             /\ UsableHeight >= 0 =>
                    (r * card_height <= UsableHeight
                        /\ UsableHeight < (r + 1) * card_height)
             /\ UsableHeight < 0 =>
                    ((r - 1) * card_height < UsableHeight
                        /\ UsableHeight <= r * card_height)
        /\ pc # "idle" => cards_per_page = cpp

C8_Witness ==
    /\ pc = "loop"
    /\ UsableHeight < 0
    /\ card_height = 10 * cm
    /\ cards_per_page = 0

----------------------------------------------------------------------------
(* The markup translator on its own: every text up to MaxTextLen over the   *)
(* three markup characters, a letter and a newline.                         *)

MdAlphabet == {"a", "*", "_", NL}

MdInit ==
    /\ InitGenerator
    /\ InitIdle
    /\ InitPipelineOff
    /\ md_text \in SeqsUpTo(MdAlphabet, MaxTextLen)
    /\ md_out = NotParsed

ParseMarkdownCall ==
    /\ ~md_out.done
    /\ md_out' = [done |-> TRUE, text |-> ParseMarkdown(md_text)]
    /\ UNCHANGED <<genVars, runVars, args, last, files, pipeVars, md_text>>

MdNext == ParseMarkdownCall

MdSpec == MdInit /\ [][MdNext]_vars

CountOf(t, ch) == Cardinality({j \in 1..Len(t) : t[j] = ch})

\* No delimiter of the text has a closing partner: at most one '*' or a
\* single '**', and fewer than the four '_' a '__' pair takes.
Unpaired(t) ==
    /\ \/ CountOf(t, "*") <= 1
       \/ CountOf(t, "*") = 2 /\ \E j \in 1..(Len(t) - 1) : t[j] = "*" /\ t[j + 1] = "*"
    /\ CountOf(t, "_") <= 3

\* C9: a text whose delimiters have no closing partner, a text with a single
\* '**' among them, is returned unchanged; so is a text with no markup
\* characters.
C9_UnmatchedLeftLiteral ==
    (md_out.done /\ Unpaired(md_text)) => md_out.text = md_text

----------------------------------------------------------------------------
(* The content pipeline: generate_flashcards_with_gemini and the part of   *)
(* main that hands its result to a fresh generator.                        *)

max_retries == 3

OutputPath == "out.pdf"

Whitespace == {" ", NL}

RECURSIVE LStrip(_)
LStrip(s) == IF s # <<>> /\ s[1] \in Whitespace THEN LStrip(Tail(s)) ELSE s

RECURSIVE RStrip(_)
RStrip(s) ==
    IF s # <<>> /\ s[Len(s)] \in Whitespace
    THEN RStrip(SubSeq(s, 1, Len(s) - 1)) ELSE s

Strip(s) == RStrip(LStrip(s))

Digit(d) == <<"0", "1", "2", "3", "4", "5", "6", "7", "8", "9">>[d + 1]

\* str(n) for n >= 0
RECURSIVE ToStr(_)
ToStr(n) == IF n < 10 THEN <<Digit(n)>> ELSE ToStr(n \div 10) \o <<Digit(n % 10)>>

\* JSON values a card's field can hold: absent or null, a number, a string.
None == [t |-> "none"]

Num == [t |-> "num"]

Str(s) == [t |-> "str", s |-> s]

FieldValues ==
    {None, Num, Str(<<>>), Str(<<" ">>), Str(<<" ", "a">>), Str(<<"b", NL>>)}

\* An element of the array: an object, or some other JSON value.
Obj(front, back) == [t |-> "obj", front |-> front, back |-> back]

NonDict == [t |-> "other"]

Objects == {Obj(f, b) : f \in FieldValues, b \in FieldValues}

\* The text matched by  \[\s*\{.*\}\s*\]  parses to an array whose first
\* element is an object.
CardArrays ==
    {a \in SeqsUpTo(Objects \cup {NonDict}, MaxCards) : a # <<>> /\ a[1].t = "obj"}

\* What one attempt meets: the call overran max_api_time; the response holds
\* no array of objects (geminiResponse's own "Error: ..." text included); the
\* match is no JSON; or an array.
Responses ==
    {[kind |-> "timeout"], [kind |-> "nojson"], [kind |-> "badjson"]}
        \cup {[kind |-> "json", cards |-> a] : a \in CardArrays}

\* card.get(key) or ""
GetOr(v) == IF v = None \/ v = Str(<<>>) THEN Str(<<>>) ELSE v

\* Lines 85-86 raise AttributeError on an element without .get and on a
\* field value without .strip.
CardRaises(card) ==
    \/ card.t # "obj"
    \/ GetOr(card.front).t # "str"
    \/ GetOr(card.back).t # "str"

KeepCard_FrontOnly(front, back) == front # <<>>

KeepCard(front, back) == front # <<>> /\ back # <<>>

RECURSIVE CollectFrom(_, _)
CollectFrom(cards, i) ==
    IF i >= Len(cards) THEN <<>>
    ELSE LET card == cards[i + 1]
             front == Strip(GetOr(card.front).s)
             back == Strip(GetOr(card.back).s)
         IN  (IF KeepCard(front, back)
              THEN << <<front, back, <<>>, ToStr(i + 1)>> >> ELSE <<>>)
                 \o CollectFrom(cards, i + 1)

PipelineInit ==
    /\ InitGenerator
    /\ InitIdle
    /\ InitMarkdownOff
    /\ mpc = "start"
    /\ attempt = 0
    /\ calls = 0
    /\ attempt_outcome = "none"
    /\ response = NoResponse
    /\ flashcards = <<>>

\* main calls generate_flashcards_with_gemini(text, num_cards).
MainCall ==
    /\ mpc = "start"
    /\ mpc' = "calling"
    /\ attempt' = 0
    /\ UNCHANGED <<genVars, runVars, args, last, files, calls, attempt_outcome,
                   response, flashcards, mdVars>>

\* The except branches: another attempt, or [] after the last one.
RetryOrGiveUp(r) ==
    IF attempt < max_retries - 1
    THEN /\ attempt' = attempt + 1
         /\ UNCHANGED <<mpc, response, flashcards>>
    ELSE /\ mpc' = "returned"
         /\ response' = r
         /\ flashcards' = <<>>
         /\ UNCHANGED attempt

\* How an attempt on response r ends: "timeout" (TimeoutError), "nojson",
\* "badjson", "exception" (a card raised in lines 85-86) or "ok".
Outcome(r) ==
    IF r.kind # "json" THEN r.kind
    ELSE IF \E i \in 1..Len(r.cards) : CardRaises(r.cards[i]) THEN "exception"
    ELSE "ok"

Retryable_AnyFailure(o) == o # "ok"

\* The outcomes the two outer except clauses catch; "nojson" and "badjson"
\* return inside the try block.
Retryable(o) == o \in {"timeout", "exception"}

\* One pass of the retry loop.
Attempt(r) ==
    /\ mpc = "calling"
    /\ calls' = calls + 1
    /\ attempt_outcome' = Outcome(r)
    /\ IF Retryable(Outcome(r))
       THEN RetryOrGiveUp(r)
       ELSE /\ mpc' = "returned"
            /\ response' = r
            /\ flashcards' = IF Outcome(r) = "ok"
                             THEN CollectFrom(r.cards, 0) ELSE <<>>
            /\ UNCHANGED attempt
    /\ UNCHANGED <<genVars, runVars, args, last, files, mdVars>>

\* main, lines 176-187: give up on an empty list, else render it.
MainRender ==
    /\ mpc = "returned"
    /\ IF flashcards = <<>>
       THEN /\ mpc' = "end"
            /\ UNCHANGED <<genVars, runVars, args, last, files, mdVars>>
       ELSE /\ mpc' = "render"
            /\ GeneratePdfCall(flashcards, OutputPath)
    /\ UNCHANGED <<attempt, calls, attempt_outcome, response, flashcards>>

\* main, lines 189-197, once generate_pdf has returned.
MainEnd ==
    /\ mpc = "render"
    /\ pc = "idle"
    /\ mpc' = "end"
    /\ UNCHANGED <<genVars, runVars, args, last, files, attempt, calls,
                   attempt_outcome, response, flashcards, mdVars>>

PipelineNext ==
    \/ MainCall
    \/ mpc = "calling" /\ \E r \in Responses : Attempt(r)
    \/ MainRender
    \/ GroupIteration
    \/ Save
    \/ Return
    \/ MainEnd

PipelineSpec == PipelineInit /\ [][PipelineNext]_vars

\* The same pipeline on the responses that hold one card at most: how an
\* attempt of generate_flashcards_with_gemini ends does not depend on more.
SingleCardResponses == {r \in Responses : r.kind = "json" => Len(r.cards) = 1}

RetryNext ==
    \/ MainCall
    \/ mpc = "calling" /\ \E r \in SingleCardResponses : Attempt(r)
    \/ MainRender
    \/ GroupIteration
    \/ Save
    \/ Return
    \/ MainEnd

\* The program is sequential and every call it makes returns: a step that
\* can be taken is taken.
RetrySpec == PipelineInit /\ [][RetryNext]_vars /\ WF_vars(RetryNext)

DigitValue(ch) == CHOOSE d \in 0..9 : Digit(d) = ch

\* The number a decimal numeral denotes.
RECURSIVE DecValue(_)
DecValue(s) ==
    IF s = <<>> THEN 0
    ELSE 10 * DecValue(SubSeq(s, 1, Len(s) - 1)) + DigitValue(s[Len(s)])

Trimmed(s) == s # <<>> /\ s[1] \notin Whitespace /\ s[Len(s)] \notin Whitespace

\* The array positions whose card has a front and a back that are strings
\* with something other than whitespace in them.
HasText(v) == v.t = "str" /\ \E j \in 1..Len(v.s) : v.s[j] \notin Whitespace

Complete(cards) ==
    {i \in 1..Len(cards) : HasText(cards[i].front) /\ HasText(cards[i].back)}

Returned == mpc \in {"returned", "render", "end"}

\* C11: generate_flashcards_with_gemini ends by returning a list and never
\* otherwise; geminiResponse is called at most max_retries times, one call
\* per attempt; a further attempt follows only a timeout or an exception,
\* never a response without a parsable JSON array, which returns [] at
\* once; and [] is returned once the last attempt has failed.
C11_RetryLoop ==
    /\ <>Returned
    /\ [](/\ mpc \in {"start", "calling", "returned", "render", "end"}
          /\ calls <= max_retries
          /\ Returned =>
               /\ DOMAIN flashcards = 1..Len(flashcards)
               /\ calls >= 1
               /\ attempt_outcome \in {"nojson", "badjson"} => flashcards = <<>>
               /\ attempt_outcome \in {"timeout", "exception"} =>
                      (calls = max_retries /\ flashcards = <<>>))
    /\ [][ /\ calls' # calls =>
                /\ calls' = calls + 1
                /\ mpc = "calling"
                /\ mpc' \in {"calling", "returned"}
                /\ mpc' = "calling" =>
                       /\ attempt_outcome' \in {"timeout", "exception"}
                       /\ calls' < max_retries
                /\ attempt_outcome' \in {"nojson", "badjson"} => mpc' = "returned"
           /\ mpc = "calling" => calls' = calls + 1
           /\ mpc # "calling" => calls' = calls ]_vars

\* Two failed attempts were retried, the third failed and [] came back.
C11_Witness ==
    /\ mpc = "returned"
    /\ calls = max_retries
    /\ attempt_outcome = "exception"
    /\ flashcards = <<>>

====
